---- MODULE Spec2Model ----
(***************************************************************************)
(* A model of the kiri Go engine: the padded board of go_board, the        *)
(* marker-based string flood of Position, and the move engine of the Rule  *)
(* trait (play, capture_by, remove_string, undo_play, check_legal).        *)
(*                                                                         *)
(* Position19 is a 19x19 board; the Board trait takes the width and the    *)
(* height separately, and the model instantiates it on a small board.      *)
(* A PointState is one of "Empty", "Black", "White" (Occupied(c)), "Out",  *)
(* "Forbidden".  An Option<usize> is <<>> (None) or <<k>> (Some(k)).       *)
(***************************************************************************)
EXTENDS Integers, Sequences, FiniteSets

\* Board dimensions of the checked instance (get_width / get_height): the
\* smallest board with a point off the edge, so that it has a ko, a suicide,
\* captures of several strings at once, a string with a cycle (a 2x2 block)
\* and an eye whose four diagonals are on the board.
Width == 3
Height == 3

\* make_position!(19, 1, ...): the width of the out-of-bounds halo.
ObSize == 1

VARIABLES
    states,   \* Position.states: the padded array of PointState
    turn,     \* Position.turn: the side to move
    ko,       \* Position.ko: Option<LinearCoord>
    op,       \* the last call made: "new", "play", "undo", "string_at", a
              \* board query, "clear", "mark", "is_marked", or "panic"
    mov,      \* the Move passed to the last play call
    result,   \* the Result<MoveLog, &str> the last play call returned
    before,   \* the position as it was when the last play call was made
    at,       \* the point passed to the last direct string_at call
    string,   \* the GoString that call returned
    ret,      \* what the last query of the board (all_points, empties,
              \* is_eye, score) returned
    marker,   \* the shared Marker instance (MARKER19), where it is followed
    threads,  \* the floods in progress, where their steps are followed
    rollout,  \* the locals of tests::rollout
    since     \* whether clear() has been called on the marker, and the
              \* indices mark() has been called on since the last clear()

vars == <<states, turn, ko, op, mov, result, before, at, string, ret,
          marker, threads, rollout, since>>

(***************************************************************************)
(* go_board: colours, point states, coordinates.                           *)
(***************************************************************************)
Colors == {"Black", "White"}

opponent(c) == IF c = "Black" THEN "White" ELSE "Black"

is_stone(s) == s \in Colors

get_width_with_ob == Width + ObSize * 2

ArraySize == (Width + ObSize * 2) * (Height + ObSize * 2)

xy_to_linear(x, y) == x + ObSize - 1 + (y + ObSize - 1) * get_width_with_ob

\* The range xy_to_linear(1, 1) .. xy_to_linear(width, height) + 1 (exclusive).
all_points == xy_to_linear(1, 1) .. xy_to_linear(Width, Height)

get_state(st, pt) == st[pt]

set_state(st, pt, value) == [st EXCEPT ![pt] = value]

is_on_board(st, pt) == get_state(st, pt) # "Out"

\* adjacencies_at with the West neighbour written as pt + 1.
adjacencies_at_east_twice(pt) ==
    <<pt - get_width_with_ob, pt + 1, pt + get_width_with_ob, pt + 1>>

\* North, East, South, West.
adjacencies_at(pt) ==
    <<pt - get_width_with_ob, pt + 1, pt + get_width_with_ob, pt - 1>>

(***************************************************************************)
(* Marker: a generation counter and one mark per cell.                     *)
(***************************************************************************)
\* The generation counter is an i32; the model gives it GenBits bits, two's
\* complement, so that it can be taken through all its values.
GenBits == 3

MinGen == 0 - 2 ^ (GenBits - 1)

MaxGen == 2 ^ (GenBits - 1) - 1

\* v + 1 in two's complement, wrapping (a build without overflow checks).
wrapping_inc(v) == IF v = MaxGen THEN MinGen ELSE v + 1

MARKER == [value |-> 0, marks |-> [i \in 0 .. ArraySize - 1 |-> 0]]

clear(m) == [m EXCEPT !.value = wrapping_inc(@)]

is_marked(m, i) == m.marks[i] = m.value

mark(m, i) == [m EXCEPT !.marks[i] = m.value]

(***************************************************************************)
(* Position::string_at: the flood.  The walk state is the GoString under   *)
(* construction together with the marker.                                  *)
(***************************************************************************)
GoStringNew == [points |-> <<>>, liberties |-> <<>>, opponents |-> <<>>]

\* The body of `for &a in &self.adjacencies_at(pt)` for the k-th neighbour on.
RECURSIVE walk_adjacencies(_, _, _, _, _)
walk_adjacencies(st, stone, adj, k, w) ==
    IF k > Len(adj) THEN w
    ELSE LET a == adj[k] IN
         IF ~is_marked(w.marker, a)
         THEN LET state == get_state(st, a) IN
              IF state = stone
              THEN walk_adjacencies(st, stone, adj, k + 1,
                       [w EXCEPT !.points = Append(@, a)])
              ELSE walk_adjacencies(st, stone, adj, k + 1,
                       [w EXCEPT !.marker = mark(@, a),
                                 !.liberties = IF state = "Empty"
                                               THEN Append(@, a) ELSE @])
         ELSE walk_adjacencies(st, stone, adj, k + 1, w)

\* `while index < string.points.len()` (index is 1-based here).
RECURSIVE walk(_, _, _, _)
walk(st, stone, index, w) ==
    IF index > Len(w.points) THEN w
    ELSE LET pt == w.points[index] IN
         IF ~is_marked(w.marker, pt)
         THEN walk(st, stone, index + 1,
                   walk_adjacencies(st, stone, adjacencies_at(pt), 1,
                                    [w EXCEPT !.marker = mark(@, pt)]))
         ELSE walk(st, stone, index + 1, w)

\* The flood on a fresh GoString, starting from the marker m.
string_at_with(st, pt, m) ==
    LET stone == get_state(st, pt)
        w == walk(st, stone, 1,
                  [points |-> <<pt>>, liberties |-> <<>>,
                   opponents |-> <<>>, marker |-> clear(m)])
    IN [points |-> w.points, liberties |-> w.liberties,
        opponents |-> w.opponents]

\* A flood run on its own, by one thread, before the generation counter has
\* wrapped: its clear() moves the generation past all the marks earlier
\* floods left, so the call is run from the marker's initial value.
string_at(st, pt) == string_at_with(st, pt, MARKER)

\* size that takes every string for a single stone.
size_always_one(s) == 1

size(s) == Len(s.points)

num_liberties(s) == Len(s.liberties)

(***************************************************************************)
(* Rule: the move engine.  A position is [states, turn, ko].               *)
(***************************************************************************)
Position(st, t, k) == [states |-> st, turn |-> t, ko |-> k]

Pass == [kind |-> "Pass", pt |-> 0]

Resign == [kind |-> "Resign", pt |-> 0]

Linear(pt) == [kind |-> "Linear", pt |-> pt]

MoveLog(t, k, m, c) == [turn |-> t, ko |-> k, mov |-> m, captives |-> c]

NoLog == MoveLog("Black", <<>>, Resign, <<>>)

Ok(log) == [tag |-> "Ok", err |-> "", log |-> log]

Err(msg) == [tag |-> "Err", err |-> msg, log |-> NoLog]

\* is_ko that never reports a ko point.
is_ko_never(pos, pt) == FALSE

is_ko(pos, pt) == IF pos.ko # <<>> THEN pt = pos.ko[1] ELSE FALSE

\* switch_turn that sets the turn to what it already is.
switch_turn_same(pos) == [pos EXCEPT !.turn = pos.turn]

switch_turn(pos) == [pos EXCEPT !.turn = opponent(pos.turn)]

\* `for &e in &string.points { self.set_state(e, PointState::Empty) }`
RECURSIVE remove_points(_, _, _)
remove_points(st, points, k) ==
    IF k > Len(points) THEN st
    ELSE remove_points(set_state(st, points[k], "Empty"), points, k + 1)

\* remove_string that takes only the first stone of the string off.
remove_string_head(st, s) == set_state(st, s.points[1], "Empty")

remove_string(st, s) == remove_points(st, s.points, 1)

\* A capture loop that puts each captured string in front of the captives
\* found so far.
RECURSIVE capture_loop_prepend(_, _, _, _)
capture_loop_prepend(c, opp, adj, k) ==
    IF k > Len(adj) THEN c
    ELSE LET a == adj[k] IN
         IF get_state(c.states, a) = opp
         THEN LET s == string_at(c.states, a) IN
              IF num_liberties(s) = 0
              THEN capture_loop_prepend(
                       [states |-> remove_string(c.states, s),
                        captives |-> s.points \o c.captives],
                       opp, adj, k + 1)
              ELSE capture_loop_prepend(c, opp, adj, k + 1)
         ELSE capture_loop_prepend(c, opp, adj, k + 1)

\* The loop of capture_by over the neighbours of pt, from the k-th on; c is
\* [states, captives].
RECURSIVE capture_loop(_, _, _, _)
capture_loop(c, opp, adj, k) ==
    IF k > Len(adj) THEN c
    ELSE LET a == adj[k] IN
         IF get_state(c.states, a) = opp
         THEN LET s == string_at(c.states, a) IN
              IF num_liberties(s) = 0
              THEN capture_loop([states |-> remove_string(c.states, s),
                                 captives |-> c.captives \o s.points],
                                opp, adj, k + 1)
              ELSE capture_loop(c, opp, adj, k + 1)
         ELSE capture_loop(c, opp, adj, k + 1)

\* capture_by that looks for strings of the mover's colour.
capture_by_own_colour(pos, pt) ==
    capture_loop([states |-> pos.states, captives |-> <<>>],
                 pos.turn, adjacencies_at(pt), 1)

capture_by(pos, pt) ==
    capture_loop([states |-> pos.states, captives |-> <<>>],
                 opponent(pos.turn), adjacencies_at(pt), 1)

\* Move::Pass arm of play.
play_pass(pos) ==
    LET p1 == switch_turn(pos) IN
    [pos |-> p1, result |-> Ok(MoveLog(p1.turn, pos.ko, Pass, <<>>))]

\* A suicide branch that leaves the stone on the board.
take_back_nothing(st, pt) == st

\* The suicide branch: the stone just placed is taken off again.
take_back(st, pt) == set_state(st, pt, "Empty")

\* A ko rule that forbids the point just played.
ko_after_played_point(captives, s) ==
    IF Len(captives) = 1 /\ num_liberties(s) = 1 /\ size(s) = 1
    THEN <<s.points[1]>>
    ELSE <<>>

\* The ko rule: the ko point a successful stone play leaves.
ko_after(captives, s) ==
    IF Len(captives) = 1 /\ num_liberties(s) = 1 /\ size(s) = 1
    THEN <<s.liberties[1]>>
    ELSE <<>>

\* Move::Linear arm of play, after the ko test: c is what capture_by
\* returned, s the flood of the stone placed.
play_placed(pos, pt, c, s) ==
    IF num_liberties(s) = 0
    THEN [pos |-> [pos EXCEPT !.states = take_back(c.states, pt)],
          result |-> Err("suicide move")]
    ELSE LET p3 == switch_turn([pos EXCEPT !.states = c.states,
                                           !.ko = ko_after(c.captives, s)])
         IN [pos |-> p3,
             result |-> Ok(MoveLog(p3.turn, pos.ko, Linear(pt), c.captives))]

\* A Linear arm without the ko test.
play_linear_ignores_ko(pos, pt) ==
    LET c == capture_by([pos EXCEPT !.states = set_state(@, pt, pos.turn)], pt)
    IN play_placed(pos, pt, c, string_at(c.states, pt))

\* Move::Linear arm of play.
play_linear(pos, pt) ==
    IF is_ko(pos, pt)
    THEN [pos |-> pos, result |-> Err("prohibit move")]
    ELSE LET c == capture_by([pos EXCEPT !.states =
                                  set_state(@, pt, pos.turn)], pt)
         IN play_placed(pos, pt, c, string_at(c.states, pt))

\* play returns the position it leaves and the Result it returns.
play(pos, m) ==
    CASE m.kind = "Pass" -> play_pass(pos)
      [] m.kind = "Linear" -> play_linear(pos, m.pt)
      [] OTHER -> [pos |-> pos, result |-> Err("resign is not treated by play")]

\* `for &pt in &move_log.captives { self.set_state(pt, Occupied(opponent)) }`
RECURSIVE restore_points(_, _, _, _)
restore_points(st, points, k, c) ==
    IF k > Len(points) THEN st
    ELSE restore_points(set_state(st, points[k], c), points, k + 1, c)

\* undo_play that leaves the ko point as it is.
undo_play_keeps_ko(pos, move_log) ==
    LET p1 == switch_turn(pos) IN
    IF move_log.mov.kind = "Linear"
    THEN [p1 EXCEPT !.states =
             restore_points(set_state(@, move_log.mov.pt, "Empty"),
                            move_log.captives, 1, opponent(move_log.turn))]
    ELSE p1

undo_play(pos, move_log) ==
    LET p1 == switch_turn([pos EXCEPT !.ko = move_log.ko]) IN
    IF move_log.mov.kind = "Linear"
    THEN [p1 EXCEPT !.states =
             restore_points(set_state(@, move_log.mov.pt, "Empty"),
                            move_log.captives, 1, opponent(move_log.turn))]
    ELSE p1

check_legal(st) ==
    \A pt \in all_points :
        ~(is_stone(get_state(st, pt)) /\ num_liberties(string_at(st, pt)) = 0)

\* reset that writes Empty over the whole range of all_points.
reset_all_points ==
    Position([pt \in 0 .. ArraySize - 1 |->
                 IF pt \in all_points THEN "Empty" ELSE "Out"],
             "Black", <<>>)

\* Position::reset: Out everywhere, then Empty on the playing area, no ko,
\* Black to move.
reset ==
    Position([pt \in 0 .. ArraySize - 1 |->
                 IF \E row \in 1 .. Height : \E col \in 1 .. Width :
                        pt = xy_to_linear(col, row)
                 THEN "Empty" ELSE "Out"],
             "Black", <<>>)

(***************************************************************************)
(* The game: a caller holding one Position plays moves and may take back   *)
(* the move just played with the log play returned.                        *)
(***************************************************************************)
Here == Position(states, turn, ko)

\* tests::rollout before it is called.
RolloutIdle == [pc |-> "idle", num_consecutive_passes |-> 0, num_moves |-> 0]

\* No clear() and no mark() has been called on the marker yet.
NoCalls == [cleared |-> FALSE, marked |-> {}]

Init ==
    /\ states = reset.states
    /\ turn = reset.turn
    /\ ko = reset.ko
    /\ op = "new"
    /\ mov = Resign
    /\ result = Err("")
    /\ before = reset
    /\ at = 0
    /\ string = GoStringNew
    /\ ret = <<>>
    /\ marker = MARKER
    /\ threads = <<>>
    /\ rollout = RolloutIdle
    /\ since = NoCalls

\* One call of play(m).
Play(m) ==
    \E r \in {play(Here, m)} :
    /\ states' = r.pos.states
    /\ turn' = r.pos.turn
    /\ ko' = r.pos.ko
    /\ op' = "play"
    /\ mov' = m
    /\ result' = r.result
    /\ before' = Here
    /\ UNCHANGED <<at, string, ret, marker, threads, rollout, since>>

PlayPass == Play(Pass)

PlayResign == Play(Resign)

\* Linear moves are made on Empty points of the playing area (playing off
\* the board or onto a stone is a precondition violation).
PlayLinear ==
    \E pt \in 0 .. ArraySize - 1 :
        /\ is_on_board(states, pt)
        /\ get_state(states, pt) = "Empty"
        /\ Play(Linear(pt))

\* undo_play with the log of the play that has just succeeded.
UndoPlay ==
    /\ op = "play"
    /\ result.tag = "Ok"
    /\ \E p \in {undo_play(Here, result.log)} :
       /\ states' = p.states
       /\ turn' = p.turn
       /\ ko' = p.ko
    /\ op' = "undo"
    /\ UNCHANGED <<mov, result, before, at, string, ret, marker, threads, rollout, since>>

NextPlay == PlayPass \/ PlayResign \/ PlayLinear

Next == PlayPass \/ PlayResign \/ PlayLinear \/ UndoPlay

\* Games with take-back.
Spec == Init /\ [][Next]_vars

\* Games made of play calls only.
SpecPlay == Init /\ [][NextPlay]_vars

(***************************************************************************)
(* The flood on its own: string_at called on a stone of an arbitrary       *)
(* board (any board can be built with from_string).                        *)
(***************************************************************************)
Boards ==
    LET area == {pt \in 0 .. ArraySize - 1 : reset.states[pt] # "Out"} IN
    [area -> {"Empty", "Black", "White"}]

\* The padded array holding the board b.
Padded(b) ==
    [pt \in 0 .. ArraySize - 1 |-> IF pt \in DOMAIN b THEN b[pt] ELSE "Out"]

InitFlood ==
    /\ \E b \in Boards : states = Padded(b)
    /\ turn = reset.turn
    /\ ko = reset.ko
    /\ op = "new"
    /\ mov = Resign
    /\ result = Err("")
    /\ before = reset
    /\ at = 0
    /\ string = GoStringNew
    /\ ret = <<>>
    /\ marker = MARKER
    /\ threads = <<>>
    /\ rollout = RolloutIdle
    /\ since = NoCalls

\* One call of string_at(pt) on a stone.
StringAt ==
    \E pt \in 0 .. ArraySize - 1 :
        /\ is_on_board(states, pt)
        /\ is_stone(get_state(states, pt))
        /\ string' = string_at(states, pt)
        /\ at' = pt
        /\ op' = "string_at"
        /\ UNCHANGED <<states, turn, ko, mov, result, before, ret, marker,
                       threads, rollout, since>>

NextFlood == StringAt

SpecFlood == InitFlood /\ [][NextFlood]_vars

(***************************************************************************)
(* Queries of the board: all_points, empties, is_eye and score, called on  *)
(* an arbitrary board.                                                     *)
(***************************************************************************)
\* What iterating a Range lo .. hi yields, as a sequence.
range_iter(lo, hi) == [i \in 1 .. (IF hi >= lo THEN hi - lo + 1 ELSE 0) |-> lo + i - 1]

\* all_points() with the end of the range left exclusive of the last point.
all_points_iter_short ==
    range_iter(xy_to_linear(1, 1), xy_to_linear(Width, Height) - 1)

\* all_points() as the iterator the callers walk.
all_points_iter == range_iter(xy_to_linear(1, 1), xy_to_linear(Width, Height))

\* A filter that keeps every cell that holds no stone.
RECURSIVE filter_no_stone(_, _, _, _)
filter_no_stone(st, points, k, acc) ==
    IF k > Len(points) THEN acc
    ELSE filter_no_stone(st, points, k + 1,
                         IF ~is_stone(get_state(st, points[k]))
                         THEN Append(acc, points[k]) ELSE acc)

\* `.filter(|&pt| ...).collect()` over the points from the k-th on.
RECURSIVE filter_empty(_, _, _, _)
filter_empty(st, points, k, acc) ==
    IF k > Len(points) THEN acc
    ELSE filter_empty(st, points, k + 1,
                      IF get_state(st, points[k]) = "Empty"
                      THEN Append(acc, points[k]) ELSE acc)

empties(st) == filter_empty(st, all_points_iter, 1, <<>>)

\* diagonal_neighbors with the NW neighbour written as NE.
diagonal_neighbors_ne_twice(pt) ==
    <<pt - get_width_with_ob + 1, pt + get_width_with_ob + 1,
      pt + get_width_with_ob - 1, pt - get_width_with_ob + 1>>

\* NE, SE, SW, NW.
diagonal_neighbors(pt) ==
    <<pt - get_width_with_ob + 1, pt + get_width_with_ob + 1,
      pt + get_width_with_ob - 1, pt - get_width_with_ob - 1>>

\* PointState::opponent.
state_opponent(c) == IF is_stone(c) THEN opponent(c) ELSE "Forbidden"

\* The first loop of is_eye, from the k-th neighbour on; e is
\* [returned, eyecolor, other].
RECURSIVE eye_adjacencies(_, _, _, _)
eye_adjacencies(st, adj, k, e) ==
    IF k > Len(adj) THEN e
    ELSE LET c == get_state(st, adj[k]) IN
         CASE c = "Out" -> eye_adjacencies(st, adj, k + 1, e)
           [] c = "Empty" -> [e EXCEPT !.returned = TRUE]
           [] OTHER ->
                IF e.eyecolor = "Empty"
                THEN eye_adjacencies(st, adj, k + 1,
                         [e EXCEPT !.eyecolor = c, !.other = state_opponent(c)])
                ELSE IF c = e.other
                     THEN [e EXCEPT !.returned = TRUE]
                     ELSE eye_adjacencies(st, adj, k + 1, e)

\* The second loop of is_eye; n is [n_out, n_opponent].
RECURSIVE eye_diagonals(_, _, _, _, _)
eye_diagonals(st, diag, k, other, n) ==
    IF k > Len(diag) THEN n
    ELSE LET c == get_state(st, diag[k]) IN
         eye_diagonals(st, diag, k + 1, other,
             IF c = "Out" THEN [n EXCEPT !.n_out = @ + 1]
             ELSE IF c = other THEN [n EXCEPT !.n_opponent = @ + 1]
             ELSE n)

is_eye(st, pt) ==
    LET e == eye_adjacencies(st, adjacencies_at(pt), 1,
                 [returned |-> FALSE, eyecolor |-> "Empty", other |-> "Empty"])
    IN IF e.returned THEN "Empty"
       ELSE LET n == eye_diagonals(st, diagonal_neighbors(pt), 1, e.other,
                         [n_out |-> 0, n_opponent |-> 0])
            IN IF (n.n_out >= 1 /\ n.n_opponent >= 1)
                  \/ (n.n_out = 0 /\ n.n_opponent >= 2)
               THEN "Empty"
               ELSE e.eyecolor

\* reset sets komi to 6.5; komi and scores are counted in half points.
KomiHalves == 13

\* A score loop that counts stones only.
RECURSIVE score_loop_stones_only(_, _, _, _)
score_loop_stones_only(st, points, k, sum) ==
    IF k > Len(points) THEN sum
    ELSE LET c == get_state(st, points[k])
         IN score_loop_stones_only(st, points, k + 1,
                       IF c = "Black" THEN sum + 1
                       ELSE IF c = "White" THEN sum - 1
                       ELSE sum)

\* The loop of score over the points from the k-th on.
RECURSIVE score_loop(_, _, _, _)
score_loop(st, points, k, sum) ==
    IF k > Len(points) THEN sum
    ELSE LET c0 == get_state(st, points[k])
             c == IF c0 = "Empty" THEN is_eye(st, points[k]) ELSE c0
         IN score_loop(st, points, k + 1,
                       IF c = "Black" THEN sum + 1
                       ELSE IF c = "White" THEN sum - 1
                       ELSE sum)

\* score() in half points: s as f32 - komi.
score(st) == 2 * score_loop(st, all_points_iter, 1, 0) - KomiHalves

Query(name, pt, value) ==
    /\ op' = name
    /\ at' = pt
    /\ ret' = value
    /\ UNCHANGED <<states, turn, ko, mov, result, before, string, marker,
                   threads, rollout, since>>

AllPoints == Query("all_points", 0, all_points_iter)

Empties == Query("empties", 0, empties(states))

\* is_eye is asked about Empty points of the board.
IsEye ==
    \E pt \in 0 .. ArraySize - 1 :
        /\ is_on_board(states, pt)
        /\ get_state(states, pt) = "Empty"
        /\ Query("is_eye", pt, is_eye(states, pt))

Score == Query("score", 0, score(states))

NextBoard == AllPoints \/ Empties \/ IsEye \/ Score

SpecBoard == InitFlood /\ [][NextBoard]_vars

(***************************************************************************)
(* The Marker on its own: a caller makes clear, mark and is_marked calls   *)
(* on one Marker.  `value += 1` on the largest i32 wraps in a build        *)
(* without overflow checks and panics in a build with them.                *)
(***************************************************************************)
\* The indices the caller passes (the marks of the other cells stay 0).
MarkIndices == {xy_to_linear(1, 1), xy_to_linear(2, 1)}

Running == op # "panic"

\* clear() returning.
Clear ==
    /\ Running
    /\ marker' = clear(marker)
    /\ since' = [cleared |-> TRUE, marked |-> {}]
    /\ op' = "clear"
    /\ UNCHANGED <<states, turn, ko, mov, result, before, at, string, ret,
                   threads, rollout>>

\* clear() panicking with "attempt to add with overflow".
ClearPanic ==
    /\ Running
    /\ marker.value = MaxGen
    /\ op' = "panic"
    /\ UNCHANGED <<states, turn, ko, mov, result, before, at, string, ret,
                   marker, threads, rollout, since>>

Mark ==
    \E i \in MarkIndices :
        /\ Running
        /\ marker' = mark(marker, i)
        /\ since' = [since EXCEPT !.marked = @ \cup {i}]
        /\ op' = "mark"
        /\ at' = i
        /\ UNCHANGED <<states, turn, ko, mov, result, before, string, ret,
                       threads, rollout>>

IsMarked ==
    \E i \in MarkIndices :
        /\ Running
        /\ ret' = <<is_marked(marker, i)>>
        /\ op' = "is_marked"
        /\ at' = i
        /\ UNCHANGED <<states, turn, ko, mov, result, before, string,
                       marker, threads, rollout, since>>

NextMarker == Clear \/ ClearPanic \/ Mark \/ IsMarked

SpecMarker == Init /\ [][NextMarker]_vars

(***************************************************************************)
(* Two threads, each running string_at on a Position of its own.  Both     *)
(* floods go through the one static MARKER19; a step of a thread is one    *)
(* access to it together with the thread's own work up to the next one.    *)
(***************************************************************************)
Threads == {1, 2}

\* The boards of the two Positions: Black stones on the first row, the rest
\* of the board Empty.
ThreadBoards ==
    LET row == {xy_to_linear(x, 1) : x \in 1 .. Width} IN
    {[pt \in 0 .. ArraySize - 1 |->
         IF pt \in row THEN r[pt] ELSE reset.states[pt]] :
     r \in [row -> {"Empty", "Black"}]}

\* A thread about to call string_at(pt, &mut GoString::new()) on the board b.
Flood(b, pt) ==
    [states |-> b, pt |-> pt, stone |-> get_state(b, pt),
     points |-> <<>>, liberties |-> <<>>, opponents |-> <<>>,
     index |-> 1, k |-> 1, pc |-> "clear"]

InitThreads ==
    /\ states = reset.states
    /\ turn = reset.turn
    /\ ko = reset.ko
    /\ op = "new"
    /\ mov = Resign
    /\ result = Err("")
    /\ before = reset
    /\ at = 0
    /\ string = GoStringNew
    /\ ret = <<>>
    /\ marker = MARKER
    /\ rollout = RolloutIdle
    /\ since = NoCalls
    /\ threads \in [Threads -> {Flood(b, pt) :
                        b \in ThreadBoards,
                        pt \in {xy_to_linear(x, 1) : x \in 1 .. Width}}]
    /\ \A t \in Threads : is_stone(threads[t].stone)

\* What a step of a flood leaves alone.
ThreadFrame ==
    UNCHANGED <<states, turn, ko, op, mov, result, before, at, string, ret,
                rollout, since>>

\* `$marker_instance.clear(); string.points.push(pt); let mut index = 0;`
ThreadClear(t) ==
    /\ threads[t].pc = "clear"
    /\ marker' = clear(marker)
    /\ threads' = [threads EXCEPT ![t].points = <<threads[t].pt>>,
                                  ![t].index = 1,
                                  ![t].pc = "test_point"]
    /\ ThreadFrame

\* `while index < string.points.len()` and
\* `if !$marker_instance.is_marked(upt)`.
TestPoint(t) ==
    /\ threads[t].pc = "test_point"
    /\ threads' =
           IF threads[t].index > Len(threads[t].points)
           THEN [threads EXCEPT ![t].pc = "done"]
           ELSE IF ~is_marked(marker, threads[t].points[threads[t].index])
           THEN [threads EXCEPT ![t].pc = "mark_point"]
           ELSE [threads EXCEPT ![t].index = @ + 1]
    /\ UNCHANGED marker
    /\ ThreadFrame

\* `$marker_instance.mark(upt)` and the entry of the loop over the neighbours.
MarkPoint(t) ==
    /\ threads[t].pc = "mark_point"
    /\ marker' = mark(marker, threads[t].points[threads[t].index])
    /\ threads' = [threads EXCEPT ![t].k = 1, ![t].pc = "test_adjacency"]
    /\ ThreadFrame

\* `for &a in &self.adjacencies_at(pt)`, `if !$marker_instance.is_marked(ua)`
\* and the push of a stone of the string.
TestAdjacency(t) ==
    /\ threads[t].pc = "test_adjacency"
    /\ threads' =
           LET adj == adjacencies_at(threads[t].points[threads[t].index]) IN
           IF threads[t].k > Len(adj)
           THEN [threads EXCEPT ![t].index = @ + 1, ![t].pc = "test_point"]
           ELSE LET a == adj[threads[t].k] IN
                IF is_marked(marker, a)
                THEN [threads EXCEPT ![t].k = @ + 1]
                ELSE IF get_state(threads[t].states, a) = threads[t].stone
                THEN [threads EXCEPT ![t].points = Append(@, a),
                                     ![t].k = @ + 1]
                ELSE [threads EXCEPT ![t].pc = "mark_adjacency"]
    /\ UNCHANGED marker
    /\ ThreadFrame

\* `$marker_instance.mark(ua)` and the push of a liberty.
MarkAdjacency(t) ==
    /\ threads[t].pc = "mark_adjacency"
    /\ ThreadFrame
    /\ LET a == adjacencies_at(threads[t].points[threads[t].index])[threads[t].k]
       IN /\ marker' = mark(marker, a)
          /\ threads' =
                 [threads EXCEPT
                     ![t].liberties =
                         IF get_state(threads[t].states, a) = "Empty"
                         THEN Append(@, a) ELSE @,
                     ![t].k = @ + 1,
                     ![t].pc = "test_adjacency"]

NextThreads ==
    \E t \in Threads :
        \/ ThreadClear(t)
        \/ TestPoint(t)
        \/ MarkPoint(t)
        \/ TestAdjacency(t)
        \/ MarkAdjacency(t)

SpecThreads == InitThreads /\ [][NextThreads]_vars

(***************************************************************************)
(* tests::rollout: a random playout from the empty board.  The random      *)
(* start index is any index of the candidates.                             *)
(***************************************************************************)
\* The cap on the number of moves of a playout (`if num_moves > 1000`),
\* scaled to the board.
MoveCap == 12

\* The `loop` over the candidates from index i on (1-based), begun at start:
\* the first candidate that is not an eye of the side to move and that play
\* accepts is played.
RECURSIVE rollout_try(_, _, _, _)
rollout_try(pos, candidates, i, start) ==
    LET pt == candidates[i]
        r == IF is_eye(pos.states, pt) # pos.turn
             THEN play(pos, Linear(pt))
             ELSE [pos |-> pos, result |-> Err("")]
        j == IF i + 1 > Len(candidates) THEN 1 ELSE i + 1
    IN IF r.result.tag = "Ok" THEN [pos |-> r.pos, played |-> TRUE]
       ELSE IF j = start THEN [pos |-> r.pos, played |-> FALSE]
       ELSE rollout_try(r.pos, candidates, j, start)

\* The move of one iteration of the `while`: the stone found from
\* start_index on, or a pass.
rollout_move(pos, start_index) ==
    LET candidates == empties(pos.states)
        t == IF Len(candidates) > 0
             THEN rollout_try(pos, candidates, start_index, start_index)
             ELSE [pos |-> pos, played |-> FALSE]
    IN IF t.played THEN t ELSE [pos |-> play(t.pos, Pass).pos, played |-> FALSE]

\* The cap test one move late.
rollout_count_late(l, played) ==
    LET passes == IF played THEN 0 ELSE l.num_consecutive_passes + 1
        moves == l.num_moves + 1
    IN [pc |-> IF moves > MoveCap + 1 \/ passes >= 2 THEN "done" ELSE "loop",
        num_consecutive_passes |-> passes,
        num_moves |-> moves]

\* The end of an iteration: the counters, the cap test and the test of the
\* `while`.
rollout_count(l, played) ==
    LET passes == IF played THEN 0 ELSE l.num_consecutive_passes + 1
        moves == l.num_moves + 1
    IN [pc |-> IF moves > MoveCap \/ passes >= 2 THEN "done" ELSE "loop",
        num_consecutive_passes |-> passes,
        num_moves |-> moves]

\* rollout() is called: `let mut game = Position19::new();` and the counters.
RolloutStart ==
    /\ rollout.pc = "idle"
    /\ states' = reset.states
    /\ turn' = reset.turn
    /\ ko' = reset.ko
    /\ rollout' = [rollout EXCEPT !.pc = "loop"]
    /\ UNCHANGED <<op, mov, result, before, at, string, ret, marker, threads,
                   since>>

\* One iteration of the `while`; with the last one rollout returns
\* (num_moves, game.score()).
Iteration(played) ==
    /\ rollout.pc = "loop"
    /\ \E start_index \in 1 .. IF empties(states) = <<>> THEN 1
                                ELSE Len(empties(states)) :
       \E t \in {rollout_move(Here, start_index)} :
       \E l \in {rollout_count(rollout, t.played)} :
           /\ t.played = played
           /\ states' = t.pos.states
           /\ turn' = t.pos.turn
           /\ ko' = t.pos.ko
           /\ rollout' = l
           /\ ret' = IF l.pc = "done"
                     THEN <<l.num_moves, score(t.pos.states)>> ELSE ret
    /\ UNCHANGED <<op, mov, result, before, at, string, marker, threads,
                   since>>

RolloutPlay == Iteration(TRUE)

RolloutPass == Iteration(FALSE)

NextRollout == RolloutStart \/ RolloutPlay \/ RolloutPass

SpecRollout == Init /\ [][NextRollout]_vars

(***************************************************************************)
(* Properties.  The notions of Go they use are defined here on the board   *)
(* itself, apart from the engine's flood.                                  *)
(***************************************************************************)
\* The cells of the playing area, by their (x, y).
PlayingArea ==
    {pt \in 0 .. ArraySize - 1 :
        /\ pt % get_width_with_ob \in ObSize .. ObSize + Width - 1
        /\ pt \div get_width_with_ob \in ObSize .. ObSize + Height - 1}

Neighbours(pt) ==
    {pt - get_width_with_ob, pt + 1, pt + get_width_with_ob, pt - 1}

RECURSIVE Grow(_, _, _)
Grow(st, c, S) ==
    LET N == S \cup {q \in PlayingArea :
                        st[q] = c /\ \E p \in S : q \in Neighbours(p)}
    IN IF N = S THEN S ELSE Grow(st, c, N)

\* The string of the stone on pt: the maximal connected set of its colour.
StringOf(st, pt) == Grow(st, st[pt], {pt})

\* The liberties of a set of stones.
LibertiesOf(st, S) ==
    {q \in PlayingArea : st[q] = "Empty" /\ \E p \in S : q \in Neighbours(p)}

Stones(st) == {pt \in PlayingArea : is_stone(st[pt])}

Range(seq) == {seq[i] : i \in 1 .. Len(seq)}

PlayedOk == op = "play" /\ result.tag = "Ok"

\* The opponent stones the last play took off the board.
Taken == {pt \in PlayingArea :
             before.states[pt] = opponent(before.turn) /\ states[pt] = "Empty"}

\* C1: undo_play with the log of the play just made gives back the position
\* the play was made in: every cell, the turn and the ko point.
UndoReversesPlay == op = "undo" => Here = before

\* C2: after a successful play every stone on the board belongs to a string
\* with at least one liberty, and check_legal says so.
NoSuicidePostCondition ==
    PlayedOk =>
        /\ \A pt \in Stones(states) :
               LibertiesOf(states, StringOf(states, pt)) # {}
        /\ check_legal(states)

\* A stone play has succeeded and has captured.
NoSuicideWitness ==
    PlayedOk /\ mov.kind = "Linear" /\ Taken # {}

\* C3: after a successful play(Pass) there is no ko point.
KoIsTransient == (PlayedOk /\ mov = Pass) => ko = <<>>

\* C4: a play rejected as suicide has no effect: no opponent stone is taken,
\* the point played is Empty again, and every cell, the turn and the ko
\* point are as before the call.
SuicideHasNoEffect ==
    (op = "play" /\ result = Err("suicide move")) =>
        /\ Here = before
        /\ states[mov.pt] = "Empty"
        /\ Taken = {}

\* A stone play has been rejected as suicide.
SuicideWitness ==
    op = "play" /\ mov.kind = "Linear" /\ result.err = "suicide move"

\* C5: a play on the ko point fails with the ko error and leaves every cell,
\* the turn and the ko point unchanged.
KoProhibition ==
    (op = "play" /\ mov.kind = "Linear" /\ before.ko = <<mov.pt>>) =>
        /\ result = Err("prohibit move")
        /\ Here = before

\* The recapture right after a ko-setting capture has been tried.
KoProhibitionWitness ==
    /\ op = "play"
    /\ mov.kind = "Linear"
    /\ before.ko = <<mov.pt>>
    /\ states[mov.pt] = "Empty"
    /\ \E q \in Neighbours(mov.pt) : states[q] = opponent(turn)

\* C6: when a successful stone play takes exactly one stone and leaves a ko
\* point, the ko point is where the taken stone stood, is next to the point
\* played and is Empty.
KoPointIdentity ==
    (PlayedOk /\ mov.kind = "Linear" /\ Cardinality(Taken) = 1 /\ ko # <<>>) =>
        /\ Taken = {ko[1]}
        /\ ko[1] \in Neighbours(mov.pt)
        /\ states[ko[1]] = "Empty"

\* A stone play has taken one stone and left a ko point.
KoPointWitness ==
    PlayedOk /\ mov.kind = "Linear" /\ Cardinality(Taken) = 1 /\ ko # <<>>

\* C7: a successful play hands the move to the opponent, a failed play
\* leaves the side to move as it was.
TurnAlternation ==
    op = "play" =>
        turn = IF result.tag = "Ok" THEN opponent(before.turn) ELSE before.turn

\* White has passed and Black is to move.
TurnAlternationWitness ==
    PlayedOk /\ mov = Pass /\ before.turn = "White" /\ turn = "Black"

\* C8: the cells outside the playing area hold Out and the cells inside
\* never do.
HaloIntegrity ==
    \A pt \in 0 .. ArraySize - 1 : (states[pt] = "Out") <=> pt \notin PlayingArea

\* A capturing play next to the edge has been made and taken back.
HaloWitness ==
    /\ op = "undo"
    /\ result.log.captives # <<>>
    /\ \E q \in Neighbours(mov.pt) : q \notin PlayingArea

\* C9: the flood's points are the string of the stone and its liberties are
\* the Empty points next to the string.
FloodResult ==
    op = "string_at" =>
        /\ Range(string.points) = StringOf(states, at)
        /\ Range(string.liberties) = LibertiesOf(states, StringOf(states, at))

\* A string of several stones with several liberties has been flooded.
FloodWitness ==
    /\ op = "string_at"
    /\ Cardinality(StringOf(states, at)) >= 3
    /\ Cardinality(LibertiesOf(states, StringOf(states, at))) >= 2

NoDuplicates(seq) == Cardinality(Range(seq)) = Len(seq)

\* C10: none of points, liberties and opponents holds a coordinate twice,
\* and no coordinate is in two of them.
FloodDuplicateFree ==
    op = "string_at" =>
        /\ NoDuplicates(string.points)
        /\ NoDuplicates(string.liberties)
        /\ NoDuplicates(string.opponents)
        /\ Range(string.points) \cap Range(string.liberties) = {}
        /\ Range(string.points) \cap Range(string.opponents) = {}
        /\ Range(string.liberties) \cap Range(string.opponents) = {}

\* The stones of the other colour next to a set of stones of colour c.
OpponentsOf(st, c, S) ==
    {q \in PlayingArea :
        st[q] = opponent(c) /\ \E p \in S : q \in Neighbours(p)}

\* C11: the flood's opponents are the stones of the other colour next to the
\* string.
FloodOpponents ==
    op = "string_at" =>
        Range(string.opponents) =
            OpponentsOf(states, states[at], StringOf(states, at))

\* The coordinates of the playing area in row-major order, (1,1) to (W,H).
RowMajor ==
    [i \in 1 .. Width * Height |->
        xy_to_linear(((i - 1) % Width) + 1, ((i - 1) \div Width) + 1)]

\* The subsequence of seq made of its members in S.
RECURSIVE Restrict(_, _)
Restrict(seq, S) ==
    IF seq = <<>> THEN <<>>
    ELSE IF Head(seq) \in S THEN <<Head(seq)>> \o Restrict(Tail(seq), S)
    ELSE Restrict(Tail(seq), S)

\* C12 as stated: all_points() yields exactly the coordinates of the playing
\* area, each once, in row-major order.
AllPointsExact == op = "all_points" => ret = RowMajor

\* C12 as amended: all_points() yields every coordinate of the playing area
\* once and in row-major order, and besides them only the Out cells that lie
\* between two rows (2 * ob of them after each row but the last).
AllPointsRange ==
    op = "all_points" =>
        /\ Restrict(ret, PlayingArea) = RowMajor
        /\ NoDuplicates(ret)
        /\ \A i \in 1 .. Len(ret) :
               ret[i] \notin PlayingArea =>
                   /\ states[ret[i]] = "Out"
                   /\ \E j \in 1 .. i : \E k \in i .. Len(ret) :
                          ret[j] \in PlayingArea /\ ret[k] \in PlayingArea
        /\ Len(ret) = Width * Height + 2 * ObSize * (Height - 1)

\* all_points() has been walked and has yielded a cell of the halo.
AllPointsWitness ==
    op = "all_points" /\ \E i \in 1 .. Len(ret) : ~is_on_board(states, ret[i])

\* C13: empties() returns the Empty points of the playing area, each once,
\* and nothing else.
EmptiesExact ==
    op = "empties" =>
        /\ Range(ret) = {pt \in PlayingArea : states[pt] = "Empty"}
        /\ NoDuplicates(ret)
        /\ \A i \in 1 .. Len(ret) :
               is_on_board(states, ret[i]) /\ states[ret[i]] = "Empty"

\* empties() has been called on a board with stones and Empty points in
\* more than one row.
EmptiesWitness ==
    /\ op = "empties"
    /\ Stones(states) # {}
    /\ \E i, j \in 1 .. Len(ret) :
           ret[i] \div get_width_with_ob # ret[j] \div get_width_with_ob

EyesOf(st, c) ==
    {pt \in PlayingArea : st[pt] = "Empty" /\ is_eye(st, pt) = c}

AreaOf(st, c) ==
    Cardinality({pt \in PlayingArea : st[pt] = c}) + Cardinality(EyesOf(st, c))

\* C14: score() is Black's stones and eyes minus White's stones and eyes
\* minus komi (in half points); the empty board scores -komi and a board
\* full of Black stones W*H - komi.
ScoreIsArea ==
    op = "score" =>
        /\ ret = 2 * (AreaOf(states, "Black") - AreaOf(states, "White"))
                 - KomiHalves
        /\ Stones(states) = {} => ret = -KomiHalves
        /\ (\A pt \in PlayingArea : states[pt] = "Black") =>
               ret = 2 * Width * Height - KomiHalves

\* A board on which both sides own stones and eyes has been scored.
ScoreWitness ==
    /\ op = "score"
    /\ EyesOf(states, "Black") # {}
    /\ EyesOf(states, "White") # {}

Diagonals(pt) ==
    {pt - get_width_with_ob + 1, pt + get_width_with_ob + 1,
     pt + get_width_with_ob - 1, pt - get_width_with_ob - 1}

\* pt is an eye of colour c: its neighbours on the board all hold c, and its
\* diagonals do not make it a false eye.
EyeOf(st, pt, c) ==
    LET n_out == Cardinality(Diagonals(pt) \ PlayingArea)
        n_opponent ==
            Cardinality({q \in Diagonals(pt) \cap PlayingArea :
                            st[q] = opponent(c)})
    IN /\ \A q \in Neighbours(pt) \cap PlayingArea : st[q] = c
       /\ ~((n_out >= 1 /\ n_opponent >= 1) \/ (n_out = 0 /\ n_opponent >= 2))

\* C15: on an Empty point is_eye returns the colour c exactly when the point
\* is an eye of c, and Empty in every other case.
EyePredicate ==
    op = "is_eye" =>
        /\ \A c \in Colors : (ret = c) <=> EyeOf(states, at, c)
        /\ ret \in Colors \cup {"Empty"}

\* is_eye has answered with a colour on a point whose four diagonals are on
\* the board, one of them held by the other colour.
EyeWitness ==
    /\ op = "is_eye"
    /\ ret \in Colors
    /\ Diagonals(at) \subseteq PlayingArea
    /\ \E q \in Diagonals(at) : states[q] = opponent(ret)

\* The board with the stone of the last play placed and nothing taken yet.
Placed == [before.states EXCEPT ![mov.pt] = before.turn]

\* The stones of the opponent strings next to the point played that have no
\* liberty once the stone is placed.
Dead ==
    {q \in PlayingArea :
        /\ Placed[q] = opponent(before.turn)
        /\ StringOf(Placed, q) \cap Neighbours(mov.pt) # {}
        /\ LibertiesOf(Placed, StringOf(Placed, q)) = {}}

\* C19: after a successful stone play the ko point is l exactly when the
\* play took exactly one stone and the stone played is a string of one stone
\* whose only liberty is l; otherwise there is no ko point.
KoSetRule ==
    (PlayedOk /\ mov.kind = "Linear") =>
        LET S == StringOf(states, mov.pt)
            L == LibertiesOf(states, S)
        IN /\ ko = <<>> \/ \E l \in PlayingArea : ko = <<l>>
           /\ \A l \in PlayingArea :
                  (ko = <<l>>) <=>
                      (Cardinality(Taken) = 1 /\ S = {mov.pt} /\ L = {l})

\* A successful stone play that sets no ko has been made while a ko point
\* was set: the old ko point is gone.
KoSetWitness ==
    PlayedOk /\ mov.kind = "Linear" /\ before.ko # <<>> /\ ko = <<>>

\* C20: a successful stone play changes exactly the point played, which
\* takes the mover's colour, and the stones of the dead opponent strings next
\* to it, which become Empty; every other cell is as before.
CaptureFrame ==
    (PlayedOk /\ mov.kind = "Linear") =>
        \A q \in 0 .. ArraySize - 1 :
            states[q] = IF q = mov.pt THEN before.turn
                        ELSE IF q \in Dead THEN "Empty"
                        ELSE before.states[q]

\* A stone play has taken a string of two stones or more and has left
\* another opponent stone on the board.
CaptureFrameWitness ==
    /\ PlayedOk
    /\ mov.kind = "Linear"
    /\ Cardinality(Dead) >= 2
    /\ \E q \in PlayingArea : states[q] = opponent(before.turn)

\* C17: once clear() has been called, is_marked(i) returns true exactly
\* when mark(i) has been called since the last clear(), however many times
\* clear() has been called before.
MarkerSemantics ==
    (op = "is_marked" /\ since.cleared) => ret = <<at \in since.marked>>

\* C18: a flood that has run while another thread was running its own
\* flood on another Position returns the points and the liberties it
\* returns when it runs alone.
FloodIsolation ==
    \A t \in DOMAIN threads :
        threads[t].pc = "done" =>
            LET s == string_at(threads[t].states, threads[t].pt) IN
            /\ threads[t].points = s.points
            /\ threads[t].liberties = s.liberties

MoveLogRecordsPrior ==
    PlayedOk =>
        /\ result.log.turn = before.turn
        /\ result.log.ko = before.ko
        /\ result.log.mov = mov
        /\ Range(result.log.captives) = Taken
        /\ mov = Pass =>
               (result.log.captives = <<>> /\ states = before.states)

\* C22: in every position reached by play and undo_play a ko point, if
\* there is one, is a point of the playing area and is Empty.
KoPointIsEmpty ==
    ko # <<>> => (ko[1] \in PlayingArea /\ states[ko[1]] = "Empty")

\* A play that took a ko has been taken back while an older ko point was
\* set: the older ko point is back.
KoPointIsEmptyWitness ==
    op = "undo" /\ ko # <<>> /\ before.ko = ko /\ mov.kind = "Linear"

\* C23: when a successful stone play is directly followed by a successful
\* stone play of the other side, the board after the second differs from
\* the board before the first.
NoImmediateRepetition ==
    [][(/\ PlayedOk
        /\ mov.kind = "Linear"
        /\ op' = "play"
        /\ before' = Here
        /\ result'.tag = "Ok"
        /\ mov'.kind = "Linear") => states' # before.states]_vars

\* A stone play has captured and the other side has a successful stone
\* play that takes the stone just played.
NoImmediateRepetitionWitness ==
    /\ PlayedOk
    /\ mov.kind = "Linear"
    /\ Taken # {}
    /\ \E pt \in PlayingArea :
           /\ states[pt] = "Empty"
           /\ play(Here, Linear(pt)).result.tag = "Ok"
           /\ play(Here, Linear(pt)).pos.states[mov.pt] = "Empty"

\* The neighbour of the point played, by its place in adjacencies_at, through
\* which the string of the dead stone q is found.
FoundThrough(q) ==
    CHOOSE k \in 1 .. 4 :
        /\ adjacencies_at(mov.pt)[k] \in StringOf(Placed, q)
        /\ \A j \in 1 .. k - 1 :
               adjacencies_at(mov.pt)[j] \notin StringOf(Placed, q)

\* C24: the captives of a successful stone play list the captured strings
\* in the order North, East, South, West of the neighbours they were found
\* through, and each string begins with that neighbour.
CaptivesOrdering ==
    (PlayedOk /\ mov.kind = "Linear") =>
        LET cap == result.log.captives IN
        /\ \A i \in 1 .. Len(cap) : cap[i] \in Dead
        /\ \A i, j \in 1 .. Len(cap) :
               i < j => FoundThrough(cap[i]) <= FoundThrough(cap[j])
        /\ \A i \in 1 .. Len(cap) :
               (\A h \in 1 .. i - 1 :
                    FoundThrough(cap[h]) # FoundThrough(cap[i]))
               => cap[i] = adjacencies_at(mov.pt)[FoundThrough(cap[i])]

\* A stone play has captured two strings or more, one of them of two
\* stones or more.
CaptivesOrderingWitness ==
    /\ PlayedOk
    /\ mov.kind = "Linear"
    /\ Cardinality({FoundThrough(q) : q \in Dead}) >= 2
    /\ \E q \in Dead : Cardinality(StringOf(Placed, q)) >= 2

\* C25: no point is twice in the captives of a successful stone play, and
\* there are as many captives as stones were taken off the board.
CaptivesCount ==
    (PlayedOk /\ mov.kind = "Linear") =>
        /\ NoDuplicates(result.log.captives)
        /\ Len(result.log.captives) = Cardinality(Taken)

====
